---- MODULE Spec2Model ----
(***************************************************************************)
(* Model of gclzap: a zapcore.Core that hands encoded log entries to a     *)
(* Google Cloud Logging logger (the sink).  The state is the set of Cores  *)
(* built by New and derived by With, the JSON encoders they own, the       *)
(* sink's record of Log and Flush invocations, and the position of each    *)
(* goroutine inside the Core method it is executing.                       *)
(***************************************************************************)
EXTENDS Integers, Sequences, FiniteSets, TLC

(* ---------------- bounds of the model ---------------- *)

\* number of goroutines that call into the Cores concurrently
NProcs == 2

\* number of Cores that exist at once: the one New builds and those With derives
MaxCores == 3

(* ---------------- zapcore.Level ---------------- *)

DebugLevel == -1

InfoLevel == 0

WarnLevel == 1

ErrorLevel == 2

DPanicLevel == 3

PanicLevel == 4

FatalLevel == 5

InvalidLevel == 6

\* every named level, the sentinel, and one out-of-range value on each side
Levels == (DebugLevel - 1)..(InvalidLevel + 1)

Procs == 1..NProcs

(* ---------------- fields ---------------- *)

Field(k, v) == [key |-> k, val |-> v]

\* field sets a caller attaches with With
StickyFieldSets == { <<Field("k", "sticky")>>, <<Field("j", "sticky")>> }

\* field sets a caller passes to one log call
CallFieldSets == { <<>>, <<Field("k", "call")>>, <<Field("r", "call")>> }

\* results the sink's Flush can return
FlushResults == { "nil", "flushErr" }

\* what the encoder's EncodeEntry can hand back: a buffer and no error, a
\* buffer and an error, or no buffer (nil) and an error
EncodeResults == { "ok", "err", "errNilBuf" }

(* ---------------- config.go ---------------- *)

\* toSeverity with the Panic tier mapped as encodeLevel renders it
toSeverityPanicAlert(l) ==
  CASE l = DebugLevel  -> "Debug"
    [] l = InfoLevel   -> "Info"
    [] l = WarnLevel   -> "Warning"
    [] l = ErrorLevel  -> "Error"
    [] l = DPanicLevel -> "Critical"
    [] l = PanicLevel  -> "Alert"
    [] l = FatalLevel  -> "Critical"
    [] OTHER           -> "Default"

\* logging.Severity values produced by toSeverity
toSeverity(l) ==
  CASE l = DebugLevel  -> "Debug"
    [] l = InfoLevel   -> "Info"
    [] l = WarnLevel   -> "Warning"
    [] l = ErrorLevel  -> "Error"
    [] l = DPanicLevel -> "Critical"
    [] l = PanicLevel  -> "Critical"
    [] l = FatalLevel  -> "Critical"
    [] OTHER           -> "Default"

\* a mapping a user supplies in Config.LevelToSeverity instead of toSeverity
customSeverity(l) == IF l >= ErrorLevel THEN "Alert" ELSE "Notice"

\* applying the function value stored in Config.LevelToSeverity
ApplyLevelToSeverity(f, l) ==
  IF f = "toSeverity" THEN toSeverity(l) ELSE customSeverity(l)

NewProductionConfig ==
  [Level |-> InfoLevel, LevelToSeverity |-> "toSeverity"]

NewDevelopmentConfig ==
  [Level |-> DebugLevel, LevelToSeverity |-> "toSeverity"]

\* configurations a user builds with NewConfig
NewConfig ==
  [Level : {DebugLevel, WarnLevel}, LevelToSeverity : {"toSeverity", "custom"}]

(* ---------------- logger.go ---------------- *)

\* the three constructors and the configuration each one hands to New
Constructors == { "New", "NewProduction", "NewDevelopment" }

ConfigUsedBy(ctor, userConfig) ==
  CASE ctor = "New"            -> userConfig
    [] ctor = "NewProduction"  -> NewProductionConfig
    [] ctor = "NewDevelopment" -> NewProductionConfig

(* ---------------- encoder.go: the encoder ---------------- *)

\* encodeLevel: the text of the "severity" key; "PANIC" stands for the panic
encodeLevel(l) ==
  CASE l = DebugLevel   -> "DEBUG"
    [] l = InfoLevel    -> "INFO"
    [] l = WarnLevel    -> "WARNING"
    [] l = ErrorLevel   -> "ERROR"
    [] l = DPanicLevel  -> "CRITICAL"
    [] l = PanicLevel   -> "ALERT"
    [] l = FatalLevel   -> "EMERGENCY"
    [] l = InvalidLevel -> "PANIC"
    [] OTHER            -> "UNKNOWN"

\* addFields: fields[i].AddTo(enc) for each i in order
RECURSIVE addFields(_, _)
addFields(enc, fields) ==
  IF fields = <<>> THEN enc
  ELSE addFields(Append(enc, Head(fields)), Tail(fields))

VARIABLES
  ctor,     \* which constructor built the logger
  config,   \* the Config value the user holds (for New: the one passed in)
  encs,     \* the encoders: encs[e] is the sticky context buffer of encoder e
  cores,    \* the Cores: [out, enc, LevelEnabler], cores[1] built by newCore
  sink,     \* the sink's record of invocations, in arrival order
  calls,    \* per goroutine: the Core method call it is executing
  withs     \* history of With: withs[i] = [parent, fields] of cores[i + 1]

vars == <<ctor, config, encs, cores, sink, calls, withs>>


\* a goroutine that is not inside a Core method
Idle ==
  [pc |-> "idle", op |-> "none", core |-> 0, level |-> 0, fields |-> <<>>,
   encOut |-> "none", buf |-> <<>>, ret |-> "none"]

\* one invocation the sink has seen; by = the goroutine whose call made it
SinkEvent(o, p, sev, payload, res) ==
  [op |-> o, by |-> p, Severity |-> sev, Payload |-> payload, result |-> res]

(* ---------------- logger.go / encoder.go: construction ---------------- *)

\* newCore: out, a fresh JSON encoder with no context, and the level gate
newCore(out, level) == [out |-> out, enc |-> 1, LevelEnabler |-> level]

\* New: only config.EncoderConfig and config.Level reach the Core
New(out, cfg) == newCore(out, cfg.Level)

(* ---------------- encoder.go: Core ---------------- *)

\* Enabled with a strict comparison
EnabledStrict(c, lvl) == lvl > cores[c].LevelEnabler

\* Core.Enabled: zapcore.Level as LevelEnabler, lvl >= the configured level
Enabled(c, lvl) == lvl >= cores[c].LevelEnabler

\* clone that copies the encoder reference instead of cloning the encoder
cloneSharedEncoder(core, es) ==
  [core |-> [out |-> core.out, enc |-> core.enc,
             LevelEnabler |-> core.LevelEnabler],
   encs |-> es]

\* Core.clone: same gate and sink, encoder cloned (a copy of the context buffer)
\* result: the new Core and the encoders es after the clone was allocated
clone(core, es) ==
  [core |-> [out |-> core.out, enc |-> Len(es) + 1,
             LevelEnabler |-> core.LevelEnabler],
   encs |-> Append(es, es[core.enc])]

\* Core.With on cs[c]: clone, then addFields(clone.enc, fields)
\* result: the Cores and encoders once the clone is returned
WithResult(cs, es, c, fields) ==
  LET cl == clone(cs[c], es) IN
    [cores |-> Append(cs, cl.core),
     encs  |-> [cl.encs EXCEPT ![cl.core.enc] = addFields(@, fields)]]

\* the keys every payload starts with: LevelKey, TimeKey, MessageKey
EntryKeys(lvl) ==
  << Field("severity", encodeLevel(lvl)), Field("time", "ts"),
     Field("message", "msg") >>

\* EncodeEntry that adds the call-site fields to c.enc itself
EncodeEntryShared(c, lvl, fields) ==
  LET ctx == addFields(encs[cores[c].enc], fields) IN
    [buf |-> EntryKeys(lvl) \o ctx,
     encs |-> [encs EXCEPT ![cores[c].enc] = ctx]]

\* EncodeEntry that emits the call-site fields before the context
EncodeEntryCallFirst(c, lvl, fields) ==
  [buf |-> addFields(EntryKeys(lvl), fields) \o encs[cores[c].enc],
   encs |-> encs]

\* c.enc.EncodeEntry(ent, fields) of the JSON encoder: a private clone takes the
\* entry keys, then the context of c.enc, then the call-site fields; c.enc is
\* only read.  result: the buffer and the encoders after the call
EncodeEntry(c, lvl, fields) ==
  [buf |-> addFields(EntryKeys(lvl) \o encs[cores[c].enc], fields),
   encs |-> encs]

\* flush policy that also flushes at ErrorLevel
NeedsSyncFromError(lvl) == lvl >= ErrorLevel

\* Write's flush policy: ent.Level > zapcore.ErrorLevel
NeedsSync(lvl) == lvl > ErrorLevel

\* Write's tail with the flush error swallowed
WriteResultSwallowed(err) == "nil"

\* Write's tail: if err != nil { return err }; return nil
WriteResult(err) == IF err # "nil" THEN err ELSE "nil"

\* Core.With, as one step: the clone is private until With returns it
With(p, c, fields) ==
  /\ calls[p].pc = "idle"
  /\ Len(cores) < MaxCores
  /\ cores' = WithResult(cores, encs, c, fields).cores
  /\ encs' = WithResult(cores, encs, c, fields).encs
  /\ withs' = Append(withs, [parent |-> c, fields |-> fields])
  /\ calls' = [calls EXCEPT ![p] =
                 [Idle EXCEPT !.pc = "done", !.op = "With", !.core = c,
                              !.fields = fields, !.ret = "core"]]
  /\ UNCHANGED <<ctor, config, sink>>

\* Core.Check, called by the logger for every log call; an entry that passes is
\* written by the logger through Core.Write
Check(p, c, lvl, fields) ==
  /\ calls[p].pc = "idle"
  /\ calls' = [calls EXCEPT ![p] =
                 [Idle EXCEPT !.pc = IF Enabled(c, lvl) THEN "encode" ELSE "done",
                              !.op = "Check", !.core = c, !.level = lvl,
                              !.fields = fields,
                              !.ret = IF Enabled(c, lvl) THEN "none" ELSE "dropped"]]
  /\ UNCHANGED <<ctor, config, encs, cores, sink, withs>>

\* Core.Write called directly (zapcore.Core allows Write without Check)
Write(p, c, lvl, fields) ==
  /\ calls[p].pc = "idle"
  /\ calls' = [calls EXCEPT ![p] =
                 [Idle EXCEPT !.pc = "encode", !.op = "Write", !.core = c,
                              !.level = lvl, !.fields = fields]]
  /\ UNCHANGED <<ctor, config, encs, cores, sink, withs>>

\* Write, first part: buf, err := c.enc.EncodeEntry(ent, fields);
\* defer buf.Free(); if err != nil { return err }
\*  - the sentinel level makes encodeLevel panic inside EncodeEntry
\*  - an error with a buffer is returned after the deferred Free
\*  - an error with a nil buffer: the deferred buf.Free() dereferences nil
WriteEncode(p, r) ==
  /\ calls[p].pc = "encode"
  /\ LET cl == calls[p]
         e  == EncodeEntry(cl.core, cl.level, cl.fields)
     IN IF encodeLevel(cl.level) = "PANIC"
        THEN /\ calls' = [calls EXCEPT ![p].pc = "done", ![p].encOut = "panic",
                                       ![p].ret = "panic"]
             /\ encs' = encs
        ELSE IF r = "ok"
        THEN /\ calls' = [calls EXCEPT ![p].pc = "log", ![p].encOut = "ok",
                                       ![p].buf = e.buf]
             /\ encs' = e.encs
        ELSE IF r = "err"
        THEN /\ calls' = [calls EXCEPT ![p].pc = "done", ![p].encOut = "err",
                                       ![p].ret = "encodeErr"]
             /\ encs' = encs
        ELSE /\ calls' = [calls EXCEPT ![p].pc = "done", ![p].encOut = "errNilBuf",
                                       ![p].ret = "panic"]
             /\ encs' = encs
  /\ UNCHANGED <<ctor, config, cores, sink, withs>>

\* Write, second part: c.out.Log(logging.Entry{Severity: toSeverity(ent.Level),
\* Payload: buf.String()}), then the flush decision
WriteLog(p) ==
  /\ calls[p].pc = "log"
  /\ sink' = Append(sink, SinkEvent("Log", p, toSeverity(calls[p].level),
                                    calls[p].buf, "none"))
  /\ calls' = IF NeedsSync(calls[p].level)
              THEN [calls EXCEPT ![p].pc = "sync"]
              ELSE [calls EXCEPT ![p].pc = "done", ![p].ret = "nil"]
  /\ UNCHANGED <<ctor, config, encs, cores, withs>>

\* Write, third part: err := c.Sync(); r is what the sink's Flush returns
WriteSync(p, r) ==
  /\ calls[p].pc = "sync"
  /\ sink' = Append(sink, SinkEvent("Flush", p, "none", <<>>, r))
  /\ calls' = [calls EXCEPT ![p].pc = "done", ![p].ret = WriteResult(r)]
  /\ UNCHANGED <<ctor, config, encs, cores, withs>>

\* Core.Sync: return c.out.Flush()
Sync(p, c, r) ==
  /\ calls[p].pc = "idle"
  /\ sink' = Append(sink, SinkEvent("Flush", p, "none", <<>>, r))
  /\ calls' = [calls EXCEPT ![p] =
                 [Idle EXCEPT !.pc = "done", !.op = "Sync", !.core = c, !.ret = r]]
  /\ UNCHANGED <<ctor, config, encs, cores, withs>>

\* the call returns to its caller; the goroutine may call again.  The sink's
\* record keeps the invocations of the calls that have not returned yet: a
\* call that returned makes no further invocation
Return(p) ==
  /\ calls[p].pc = "done"
  /\ calls' = [calls EXCEPT ![p] = Idle]
  /\ sink' = SelectSeq(sink, LAMBDA e : e.by # p)
  /\ UNCHANGED <<ctor, config, encs, cores, withs>>

CoreIds == 1..Len(cores)

\* the logger as New, NewProduction or NewDevelopment returns it
Init ==
  /\ ctor \in Constructors
  /\ config \in IF ctor = "New" THEN NewConfig
                ELSE IF ctor = "NewProduction" THEN {NewProductionConfig}
                ELSE {NewDevelopmentConfig}
  /\ encs = << <<>> >>
  /\ cores = << New("out", ConfigUsedBy(ctor, config)) >>
  /\ sink = <<>>
  /\ calls = [p \in Procs |-> Idle]
  /\ withs = <<>>

\* one goroutine, every level: the calls of a single-threaded caller
Next ==
  \/ \E c \in CoreIds : \E lvl \in Levels : \E f \in CallFieldSets :
       Check(1, c, lvl, f)
  \/ \E c \in CoreIds : \E lvl \in Levels : \E f \in CallFieldSets :
       Write(1, c, lvl, f)
  \/ \E c \in CoreIds : \E sf \in StickyFieldSets : With(1, c, sf)
  \/ \E r \in EncodeResults : WriteEncode(1, r)
  \/ WriteLog(1)
  \/ \E r \in FlushResults : WriteSync(1, r)
  \/ \E c \in CoreIds : \E r \in FlushResults : Sync(1, c, r)
  \/ Return(1)

Spec == Init /\ [][Next]_vars

\* levels the concurrent callers log at: one below the flush threshold, one above
ConcLevels == { InfoLevel, DPanicLevel }

\* the sticky fields of the logger the goroutines share
SharedFields == << Field("k", "sticky") >>

\* NewProduction(out), then With(SharedFields) on its Core: a root Core and a
\* derived Core with sticky fields, before the goroutines start
InitConc ==
  /\ ctor = "NewProduction"
  /\ config = NewProductionConfig
  /\ LET c0 == << New("out", ConfigUsedBy(ctor, config)) >>
         w  == WithResult(c0, << <<>> >>, 1, SharedFields)
     IN /\ encs = w.encs
        /\ cores = w.cores
  /\ sink = <<>>
  /\ calls = [p \in Procs |-> Idle]
  /\ withs = << [parent |-> 1, fields |-> SharedFields] >>

\* NProcs goroutines log through the same Cores, interleaved step by step
NextConc ==
  \E p \in Procs :
    \/ \E c \in CoreIds : \E lvl \in ConcLevels : \E f \in CallFieldSets :
         Check(p, c, lvl, f)
    \/ \E r \in EncodeResults : WriteEncode(p, r)
    \/ WriteLog(p)
    \/ \E r \in FlushResults : WriteSync(p, r)
    \/ \E c \in CoreIds : \E r \in FlushResults : Sync(p, c, r)
    \/ Return(p)

SpecConc == InitConc /\ [][NextConc]_vars

(* ======================= properties ======================= *)

\* the invocations the sink has seen from the call goroutine p is in
Events(p) == SelectSeq(sink, LAMBDA e : e.by = p)

OpsOf(p) == [i \in DOMAIN Events(p) |-> Events(p)[i].op]

LogsOf(p) == SelectSeq(Events(p), LAMBDA e : e.op = "Log")

FlushesOf(p) == SelectSeq(Events(p), LAMBDA e : e.op = "Flush")

IsWriteCall(cl) == cl.op \in {"Check", "Write"}

KeysOf(fs) == { fs[i].key : i \in DOMAIN fs }

RangeOf(fs) == { fs[i] : i \in DOMAIN fs }

\* position of the last field with key k
LastIdx(fs, k) ==
  CHOOSE i \in DOMAIN fs :
    fs[i].key = k /\ \A j \in DOMAIN fs : fs[j].key = k => j <= i

\* position of the first field with key k
FirstIdx(fs, k) ==
  CHOOSE i \in DOMAIN fs :
    fs[i].key = k /\ \A j \in DOMAIN fs : fs[j].key = k => i <= j

\* the value a JSON reader gives key k: the last one written wins
ValueOf(fs, k) == fs[LastIdx(fs, k)].val

\* the sticky fields Core c was given, from the history of With
RECURSIVE StickyOf(_)
StickyOf(c) ==
  IF c = 1 THEN <<>>
  ELSE StickyOf(withs[c - 1].parent) \o withs[c - 1].fields

CriticalLevels == { DPanicLevel, PanicLevel, FatalLevel }

OrdinaryLevels == { DebugLevel, InfoLevel, WarnLevel, ErrorLevel }

\* C1: a Write at DPanic, Panic or Fatal enqueues its entry and then flushes the
\* sink exactly once before it returns (so the sink has seen Log, Flush from the
\* call when it is about to return, only Log while the flush is pending); a
\* Write at Debug, Info, Warn or Error enqueues and never flushes.
FlushOnCritical ==
  \A p \in Procs :
    LET cl == calls[p] IN
      (IsWriteCall(cl) /\ cl.encOut = "ok") =>
        /\ cl.level \in CriticalLevels =>
             /\ cl.pc = "log"  => OpsOf(p) = <<>>
             /\ cl.pc = "sync" => OpsOf(p) = <<"Log">>
             /\ cl.pc = "done" => OpsOf(p) = <<"Log", "Flush">>
        /\ cl.level \in OrdinaryLevels =>
             /\ cl.pc # "sync"
             /\ cl.pc = "log"  => OpsOf(p) = <<>>
             /\ cl.pc = "done" => OpsOf(p) = <<"Log">>

\* C1 witness: a Fatal write about to return, after Log then Flush
FlushOnCriticalWitness ==
  \E p \in Procs :
    /\ calls[p].pc = "done" /\ IsWriteCall(calls[p])
    /\ calls[p].level = FatalLevel
    /\ OpsOf(p) = <<"Log", "Flush">>

\* C2: Enabled(L) holds exactly when L >= the minimum level the Core was built
\* with, for the root Core and every derived Core; a record below the minimum
\* that goes through Check is dropped there: it is never encoded and the sink
\* sees no invocation for it.
LevelGating ==
  /\ \A c \in CoreIds : \A l \in Levels :
       Enabled(c, l) <=> (l >= ConfigUsedBy(ctor, config).Level)
  /\ \A p \in Procs :
       LET cl == calls[p] IN
         (cl.op = "Check" /\ cl.level < ConfigUsedBy(ctor, config).Level) =>
           /\ cl.pc = "done" /\ cl.ret = "dropped"
           /\ cl.encOut = "none" /\ cl.buf = <<>>
           /\ Events(p) = <<>>

\* C2 witness: a record one level below the minimum was dropped by Check
LevelGatingWitness ==
  \E p \in Procs :
    /\ calls[p].op = "Check" /\ calls[p].pc = "done"
    /\ calls[p].level = ConfigUsedBy(ctor, config).Level - 1
    /\ calls[p].ret = "dropped" /\ sink = <<>>

\* C3: B = A.With(F) has A's sink handle and level gate and the sticky fields
\* of A followed by F, and A keeps its own sticky fields; a payload written
\* through A has no key that only F added, a payload written through B has
\* every field of F.
WithLeavesReceiverUnchanged ==
  \A i \in DOMAIN withs :
    LET A == withs[i].parent
        B == i + 1
        F == withs[i].fields
    IN /\ cores[B].out = cores[A].out
       /\ cores[B].LevelEnabler = cores[A].LevelEnabler
       /\ encs[cores[A].enc] = StickyOf(A)
       /\ encs[cores[B].enc] = StickyOf(A) \o F
       /\ \A p \in Procs : \A n \in DOMAIN LogsOf(p) :
            /\ calls[p].core = A =>
                 \A k \in KeysOf(F) \ (KeysOf(StickyOf(A)) \cup KeysOf(calls[p].fields)) :
                   k \notin KeysOf(LogsOf(p)[n].Payload)
            /\ calls[p].core = B =>
                 RangeOf(F) \subseteq RangeOf(LogsOf(p)[n].Payload)

\* C3 witness: after B was derived, a write through A reached the sink without
\* the key F added
WithLeavesReceiverUnchangedWitness ==
  \E i \in DOMAIN withs : \E p \in Procs :
    /\ IsWriteCall(calls[p]) /\ calls[p].core = withs[i].parent
    /\ calls[p].fields = <<>>
    /\ Len(LogsOf(p)) = 1
    /\ KeysOf(withs[i].fields) \cap KeysOf(LogsOf(p)[1].Payload) = {}

\* C4: under every interleaving of the goroutines' writes, each entry handed to
\* the sink is the entry keys, the sticky fields of its Core and the call-site
\* fields of its own call, nothing else; and every Core's encoder holds exactly
\* its sticky fields at all times.
ConcurrentWritesIsolated ==
  /\ \A c \in CoreIds : encs[cores[c].enc] = StickyOf(c)
  /\ \A p \in Procs :
       LET cl == calls[p]
           expected == EntryKeys(cl.level) \o StickyOf(cl.core) \o cl.fields
       IN IsWriteCall(cl) =>
            /\ cl.pc = "log" => cl.buf = expected
            /\ \A n \in DOMAIN LogsOf(p) : LogsOf(p)[n].Payload = expected

\* C4 witness: two goroutines are inside Write on the same Core with sticky
\* fields at once, with different call-site fields, and both entries are in
\* the sink
ConcurrentWritesIsolatedWitness ==
  \E p \in Procs : \E q \in Procs \ {p} :
    /\ IsWriteCall(calls[p]) /\ IsWriteCall(calls[q])
    /\ calls[p].core = calls[q].core
    /\ StickyOf(calls[p].core) # <<>>
    /\ calls[p].fields # <<>> /\ calls[q].fields # <<>>
    /\ calls[p].fields # calls[q].fields
    /\ Len(LogsOf(p)) = 1 /\ Len(LogsOf(q)) = 1

SeverityFromConfig ==
  \A p \in Procs : \A n \in DOMAIN LogsOf(p) :
    LogsOf(p)[n].Severity =
      ApplyLevelToSeverity(config.LevelToSeverity, calls[p].level)

\* C7: Sync calls the sink's flush once and returns its result unchanged; a
\* Write that encoded its record enqueues it exactly once, flushes at most once,
\* returns the flush's error when the flush failed and nil otherwise.
FlushErrorPropagated ==
  \A p \in Procs :
    LET cl == calls[p] IN
      cl.pc = "done" =>
        /\ cl.op = "Sync" =>
             /\ OpsOf(p) = <<"Flush">>
             /\ cl.ret = Events(p)[1].result
        /\ (IsWriteCall(cl) /\ cl.encOut = "ok") =>
             /\ Len(LogsOf(p)) = 1
             /\ Len(FlushesOf(p)) <= 1
             /\ cl.ret = IF Len(FlushesOf(p)) = 1
                         THEN FlushesOf(p)[1].result ELSE "nil"

\* C7 witness: a critical write whose flush failed returns the flush error
FlushErrorPropagatedWitness ==
  \E p \in Procs :
    /\ calls[p].pc = "done" /\ IsWriteCall(calls[p])
    /\ calls[p].level \in CriticalLevels
    /\ OpsOf(p) = <<"Log", "Flush">>
    /\ Events(p)[2].result = "flushErr"
    /\ calls[p].ret = "flushErr"

\* C8: in every payload handed to the sink the sticky fields come before the
\* call-site fields, so that a reader taking the last value of a key sees the
\* call-site value of every key the call passed (sticky k = "sticky" and
\* call-site k = "call" read as k = "call") and the sticky value of the others.
CallSiteShadowsSticky ==
  \A p \in Procs : \A n \in DOMAIN LogsOf(p) :
    LET payload == LogsOf(p)[n].Payload
        sticky  == StickyOf(calls[p].core)
        fields  == calls[p].fields
    IN /\ \A k \in KeysOf(fields) : ValueOf(payload, k) = ValueOf(fields, k)
       /\ \A k \in KeysOf(sticky) \ KeysOf(fields) :
            ValueOf(payload, k) = ValueOf(sticky, k)
       /\ \A k \in KeysOf(sticky) \cap KeysOf(fields) :
            /\ payload[FirstIdx(payload, k)].val = sticky[FirstIdx(sticky, k)].val
            /\ FirstIdx(payload, k) < LastIdx(payload, k)

\* C8 witness: sticky k = "sticky", call-site k = "call", payload reads "call"
CallSiteShadowsStickyWitness ==
  \E p \in Procs :
    /\ Len(LogsOf(p)) = 1
    /\ Field("k", "sticky") \in RangeOf(StickyOf(calls[p].core))
    /\ calls[p].fields = << Field("k", "call") >>
    /\ Field("k", "sticky") \in RangeOf(LogsOf(p)[1].Payload)
    /\ ValueOf(LogsOf(p)[1].Payload, "k") = "call"

\* the table of section 4.1, for the levels DebugLevel - 1 .. InvalidLevel + 1
SeverityTable ==
  << "Default", "Debug", "Info", "Warning", "Error", "Critical", "Critical",
     "Critical", "Default", "Default" >>

\* C9: toSeverity gives the table's severity for every level, Default for the
\* sentinel and the out-of-range values, and an entry enqueued by a logger built
\* from a preset carries the table's severity for its record's level.
SeverityTableTotal ==
  /\ \A l \in Levels : toSeverity(l) = SeverityTable[l - DebugLevel + 2]
  /\ ctor \in {"NewProduction", "NewDevelopment"} =>
       \A p \in Procs : \A n \in DOMAIN LogsOf(p) :
         LogsOf(p)[n].Severity = SeverityTable[calls[p].level - DebugLevel + 2]

\* C9 witness: a preset logger enqueued a Panic record as Critical
SeverityTableTotalWitness ==
  \E p \in Procs :
    /\ ctor = "NewProduction"
    /\ calls[p].level = PanicLevel
    /\ Len(LogsOf(p)) = 1
    /\ LogsOf(p)[1].Severity = "Critical"

\* C10: the logger NewDevelopment builds lets a Debug record through its level
\* gate, the logger NewProduction builds drops it.
PresetPerConstructor ==
  \A p \in Procs :
    (calls[p].op = "Check" /\ calls[p].level = DebugLevel) =>
      /\ ctor = "NewDevelopment" => calls[p].ret # "dropped"
      /\ ctor = "NewProduction"  => calls[p].ret = "dropped"

====
